---- MODULE Spec2Model ----
(***************************************************************************)
(* DOCUMIND: the document ingestion pipeline (FastAPI handlers of          *)
(* app/main.py, the Celery tasks of workers/document_tasks.py) and the     *)
(* vector store / embedding gateways it drives.                            *)
(*                                                                         *)
(* Processes: the API server (one asyncio event loop: a handler runs to    *)
(* its end unless noted), any number of Celery workers each executing one  *)
(* task message at a time, and the external services (disk, broker and     *)
(* result backend, Qdrant, the embedding and generation providers), whose  *)
(* failures are nondeterministic choices.                                  *)
(***************************************************************************)
EXTENDS Integers, Sequences, FiniteSets, TLC

(***************************************************************************)
(* Bounds of the model.                                                    *)
(***************************************************************************)
\* Largest number of chunks the splitter yields for a modelled file.
MaxChunks == 3
\* Pages of the largest modelled file.
MaxPages == 2
\* Points per upsert batch.  The source writes batches of 100
\* (vector_store.py:134); the model scales the batch with MaxChunks so that
\* a document spans several batches.
batch_size == 2
\* Points one scroll request returns.  The source asks for 10000
\* (vector_store.py:239); the model scales the page to a little more than
\* one document's chunks, so that the points of repeated attempts exceed it.
scroll_limit == 4
\* Worker processes consuming the task queue.
MaxWorkers == 2

(***************************************************************************)
(* Program constants.                                                      *)
(***************************************************************************)
max_retries == 3
dimension == 768
\* VectorParams(size=768) of the collection (vector_store.py:59).
collection_size == 768
\* A wrong vector length a drifting provider may return.
BadDimension == dimension \div 2
\* Seconds the first retry waits (document_tasks.py:159).
base_delay == 60
\* Scores are cosine similarities in hundredths: 0.5 is 50.
chat_limit == 5
chat_score_threshold == 50
search_score_threshold == 60

\* Document ids are uuid4 values: the i-th accepted upload gets the i-th
\* name, and its task the i-th task name.  OldDoc is a document of an earlier
\* run of the server: documents_db is process memory and starts empty, the
\* Qdrant collection persists.
DocNames == <<"d1">>
TaskNames == <<"t1">>
OldDoc == "d0"
DocOrder == <<OldDoc>> \o DocNames
DocIds == {DocNames[i] : i \in 1..Len(DocNames)}

\* Python's None, and the empty string.
NoneVal == "None"
EmptyStr == ""
Truthy(x) == x \notin {NoneVal, EmptyStr}

\* ProcessingStatus (models.py)
UPLOADING == "uploading"
PROCESSING == "processing"
COMPLETED == "completed"
FAILED == "failed"

\* An uploaded file, by what the pipeline makes of it: whether PdfReader
\* raises on it, its page count, and the number of chunks the text splitter
\* produces from its extracted text.
CorruptFile == [corrupt |-> TRUE, page_count |-> 0, chunks |-> 0]
Contents ==
    {CorruptFile}
    \cup {[corrupt |-> FALSE, page_count |-> 1, chunks |-> 0],
          [corrupt |-> FALSE, page_count |-> 1, chunks |-> 1],
          [corrupt |-> FALSE, page_count |-> MaxPages, chunks |-> MaxChunks]}

Queries == {"q1"}
Limits == {1, 10}

VARIABLES
    documents_db,   \* app/main.py: documents_db, document id -> doc_info
    uploads,        \* the upload directory: file path -> file content
    uploading,      \* upload_document between delay() and its last writes
    ndocs,          \* number of document ids generated so far
    queue,          \* broker queue "document_processing": task messages
    cleanup_queue,  \* broker queue "cleanup": cleanup_document messages
    backend,        \* Celery result backend: task id -> state and meta
    cleanups,       \* result backend: status returned by cleanup_document
    execs,          \* executions of process_document in progress
    index,          \* the Qdrant collection: a bag of points
    collections,    \* Qdrant's catalogue: collection name -> its settings
    starting,       \* process -> how far its vector_store.initialize() is
    file_deleted,   \* history: paths a delete_file call returned normally for
    out             \* what the last step returned: an HTTP response, or the
                    \* end of a task execution; NoOut for any other step

vars == <<documents_db, uploads, uploading, ndocs, queue, cleanup_queue,
          backend, cleanups, execs, index, collections, starting,
          file_deleted, out>>

NoOut == [op |-> "none"]

Put(f, k, v) == [x \in DOMAIN f \cup {k} |-> IF x = k THEN v ELSE f[x]]
Drop(f, k) == [x \in DOMAIN f \ {k} |-> f[x]]
EmptyMap == [x \in {} |-> x]

Min(a, b) == IF a < b THEN a ELSE b

\* The position of a document name (used to order points).
Ord(d) == CHOOSE i \in 1..Len(DocOrder) : DocOrder[i] = d
QueryNum(q) == CHOOSE i \in 1..2 : <<"q1", "q2">>[i] = q

(***************************************************************************)
(* Disk (DocumentProcessor)                                                *)
(***************************************************************************)
\* Faulty variant of delete_file: it returns without removing anything.
delete_file_keeps(disk, path, raises) == disk

\* delete_file: removes the file when it exists; a missing file is a warning.
\* os.remove may raise (raises = TRUE), and then the file stays.
delete_file(disk, path, raises) ==
    IF path \in DOMAIN disk /\ ~raises THEN Drop(disk, path) ELSE disk

\* Whether delete_file raises: only os.remove on an existing file can.
delete_file_raises(disk, path, raises) == path \in DOMAIN disk /\ raises

\* _extract_text_sync: open() raises on a missing file, PdfReader on a
\* malformed one; every exception is re-raised as "PDF processing error".
extract_raises(disk, path) ==
    IF path \notin DOMAIN disk THEN TRUE ELSE disk[path].corrupt

(***************************************************************************)
(* Celery result backend                                                   *)
(***************************************************************************)
\* AsyncResult(task_id).state: a task the backend knows nothing of is PENDING.
ResultState(t) == IF t \in DOMAIN backend THEN backend[t].state ELSE "PENDING"

\* current_task.update_state(state="PROGRESS", meta=...)
ProgressMeta(p, d) ==
    [state |-> "PROGRESS",
     meta |-> [status |-> PROCESSING, progress |-> p, document_id |-> d]]

(***************************************************************************)
(* Embedding gateway (EmbeddingService)                                    *)
(***************************************************************************)
\* What the provider may answer to a request for n embeddings: an error, or
\* a list of vectors (each given by its length): n good vectors, n vectors
\* one of which has another length, or one vector fewer than asked for.
ProviderReplies(n) ==
    {[error |-> TRUE, embeddings |-> <<>>]}
    \cup {[error |-> FALSE, embeddings |-> [i \in 1..n |-> dimension]]}
    \cup {[error |-> FALSE,
           embeddings |-> [i \in 1..n |-> IF i = k THEN BadDimension ELSE dimension]]
          : k \in 1..n}
    \cup {[error |-> FALSE, embeddings |-> [i \in 1..(n - 1) |-> dimension]]}

\* Faulty variant of dimension_ok: only the first vector is validated.
dimension_ok_first_only(embeddings) ==
    Len(embeddings) = 0 \/ embeddings[1] = dimension

\* _generate_embeddings_sync, the validation loop (embeddings.py:107-109).
dimension_ok(embeddings) ==
    \A i \in 1..Len(embeddings) : embeddings[i] = dimension

\* The task type each entry point of the gateway passes to embed.text:
\* get_embeddings (embeddings.py:98) and get_query_embedding
\* (embeddings.py:149).
get_embeddings_task_type == "search_document"
get_query_embedding_task_type == "search_query"

\* get_embeddings(texts) for n texts: "ok" with the vectors, or the failure.
get_embeddings(n, reply) ==
    IF n = 0 THEN [outcome |-> "ok", embeddings |-> <<>>]
    ELSE IF reply.error THEN [outcome |-> "provider", embeddings |-> <<>>]
    ELSE IF ~dimension_ok(reply.embeddings)
         THEN [outcome |-> "dimension", embeddings |-> <<>>]
    ELSE [outcome |-> "ok", embeddings |-> reply.embeddings]

(***************************************************************************)
(* Index store gateway (VectorStoreService)                                *)
(***************************************************************************)
\* settings.effective_collection_name
collection_name == "documind"

\* Faulty variant of ensure_collection_exists: the collection is created
\* without looking for it first; Qdrant refuses to create a collection whose
\* name is taken, and the exception leaves the function.
ensure_collection_exists_blind(cat, index_raises) ==
    IF collection_name \in DOMAIN cat
    THEN [catalogue |-> cat, created |-> {}, error |-> TRUE]
    ELSE [catalogue |->
             [n \in {collection_name} |->
                 [size |-> collection_size, payload_index |-> ~index_raises]],
          created |-> {"collection"}
                      \cup (IF index_raises THEN {} ELSE {"payload_index"}),
          error |-> FALSE]

\* ensure_collection_exists (vector_store.py:47-84) on catalogue cat: the
\* collection is created, with size 768, only when its name is not listed.
\* create_payload_index is then called in either case; whatever it raises
\* (index_raises: "already exists", or any other failure) is logged and
\* swallowed, and an index that exists stays as it is.
ensure_collection_exists(cat, index_raises) ==
    LET had == collection_name \in DOMAIN cat
        listed == IF had THEN cat
                  ELSE [n \in {collection_name} |->
                           [size |-> collection_size,
                            payload_index |-> FALSE]]
        indexed == listed[collection_name].payload_index
    IN  [catalogue |->
            [listed EXCEPT ![collection_name].payload_index =
                              indexed \/ ~index_raises],
         created |-> (IF had THEN {} ELSE {"collection"})
                     \cup (IF indexed \/ index_raises THEN {}
                           ELSE {"payload_index"}),
         error |-> FALSE]

\* The processes that run vector_store.initialize(): the API server (0, in
\* its lifespan, main.py:47-60) and the workers (document_tasks.py:49-55).
Procs == 0..MaxWorkers

\* A point of the collection.  Point ids are fresh uuid4 values that nothing
\* reads back, so the collection is a bag of payloads: point -> copies.
Point(d, i, dim) == [document_id |-> d, chunk_index |-> i, vector |-> dim]

Copies(idx, p) == IF p \in DOMAIN idx THEN idx[p] ELSE 0

\* client.upsert(points=batch): every point of the batch is a new point.
\* The store is taken to accept whatever vectors it is handed, so that the
\* lengths found in the index are those the program's own checks let through.
upsert(idx, batch) ==
    [p \in DOMAIN idx \cup batch |->
        Copies(idx, p) + (IF p \in batch THEN 1 ELSE 0)]

\* The points a document_id filter matches.
Matching(idx, d) == {p \in DOMAIN idx : p.document_id = d}

\* Number of points (with their copies) among the points S of the bag.
RECURSIVE Count(_, _)
Count(idx, S) ==
    IF S = {} THEN 0
    ELSE LET p == CHOOSE x \in S : TRUE IN idx[p] + Count(idx, S \ {p})

\* process_document, lines 113-131: zip(chunks, embeddings) pairs the i-th
\* chunk with the i-th vector and stops at the shorter of the two.
NumPoints(nchunks, embeddings) == Min(nchunks, Len(embeddings))

\* The batch starting at offset i: points[i : i + batch_size].
Batch(e, i) ==
    {Point(e.document_id, j, e.embeddings[j + 1])
     : j \in i..(Min(i + batch_size, e.npoints) - 1)}

\* client.scroll(scroll_filter, limit): one page of at most scroll_limit of
\* the matching points.  Points come in point id order and the ids are
\* random, so any choice of that many points may be the page; the next page
\* offset the call also returns is not used.
scroll(idx, d) ==
    LET S == Matching(idx, d)
        n == Min(scroll_limit, Count(idx, S))
    IN  {pg \in [S -> 0..scroll_limit] :
            /\ \A p \in S : pg[p] <= idx[p]
            /\ Count(pg, S) = n}

\* Faulty variant of delete_document: the delete request selects every
\* point of the collection instead of the ids of the page.
delete_document_everything(idx, d, page) ==
    [index |-> EmptyMap, deleted |-> Count(page, DOMAIN page)]

\* delete_document: scroll with the document_id filter, then delete the
\* points of the page by id; returns the index left and len(point_ids).
delete_document(idx, d, page) ==
    [index |-> [p \in {x \in DOMAIN idx : Copies(page, x) < idx[x]} |->
                   idx[p] - Copies(page, p)],
     deleted |-> Count(page, DOMAIN page)]

\* The similarity Qdrant computes between a query and a point, in hundredths.
Score(q, p) ==
    40 + 10 * ((Ord(p.document_id) + 2 * p.chunk_index + 3 * QueryNum(q)) % 5)

Hit(q, p) ==
    [document_id |-> p.document_id, chunk_index |-> p.chunk_index,
     score |-> Score(q, p)]

\* Qdrant's ranking: higher score first, equal scores in document order.
Before(q, x, y) ==
    \/ Score(q, x) > Score(q, y)
    \/ /\ Score(q, x) = Score(q, y)
       /\ Ord(x.document_id) * (MaxChunks + 2) + x.chunk_index
            <= Ord(y.document_id) * (MaxChunks + 2) + y.chunk_index

RECURSIVE Ranked(_, _, _)
Ranked(b, q, k) ==
    IF k = 0 \/ DOMAIN b = {} THEN <<>>
    ELSE LET p == CHOOSE x \in DOMAIN b : \A y \in DOMAIN b : Before(q, x, y)
             rest == IF b[p] = 1 THEN Drop(b, p) ELSE [b EXCEPT ![p] = @ - 1]
         IN  <<Hit(q, p)>> \o Ranked(rest, q, k - 1)

\* client.search(query_vector, query_filter, limit, score_threshold)
qdrant_search(idx, q, filter, limit, threshold) ==
    LET S == {p \in DOMAIN idx :
                /\ (filter # NoneVal => p.document_id = filter)
                /\ Score(q, p) >= threshold}
    IN  Ranked([p \in S |-> idx[p]], q, limit)

\* search_similar, lines 177-187: the filter is built only for a truthy id.
search_filter(document_id) ==
    IF Truthy(document_id) THEN document_id ELSE NoneVal

\* Faulty variant of search_similar: the score threshold is not handed to
\* the search.
search_similar_no_threshold(idx, q, document_id, limit, threshold, reply, search_raises) ==
    LET got == get_embeddings(1, reply) IN
    IF got.outcome # "ok" \/ Len(got.embeddings) = 0
    THEN [outcome |-> "error", hits |-> <<>>, calls |-> <<"embed">>,
          task_type |-> get_embeddings_task_type]
    ELSE IF search_raises
    THEN [outcome |-> "error", hits |-> <<>>, calls |-> <<"embed", "search">>,
          task_type |-> get_embeddings_task_type]
    ELSE [outcome |-> "ok",
          hits |-> qdrant_search(idx, q, search_filter(document_id), limit, 0),
          calls |-> <<"embed", "search">>,
          task_type |-> get_embeddings_task_type]

\* search_similar(query, document_id, limit, score_threshold): the query is
\* embedded with get_embeddings([query]); query_embedding[0] raises on an
\* empty list; then the collection is searched.
search_similar(idx, q, document_id, limit, threshold, reply, search_raises) ==
    LET got == get_embeddings(1, reply) IN
    IF got.outcome # "ok" \/ Len(got.embeddings) = 0
    THEN [outcome |-> "error", hits |-> <<>>, calls |-> <<"embed">>,
          task_type |-> get_embeddings_task_type]
    ELSE IF search_raises
    THEN [outcome |-> "error", hits |-> <<>>, calls |-> <<"embed", "search">>,
          task_type |-> get_embeddings_task_type]
    ELSE [outcome |-> "ok",
          hits |-> qdrant_search(idx, q, search_filter(document_id), limit,
                                 threshold),
          calls |-> <<"embed", "search">>,
          task_type |-> get_embeddings_task_type]

(***************************************************************************)
(* Ingestion job (workers/document_tasks.py: process_document)             *)
(***************************************************************************)
Message(t, d, r) == [task_id |-> t, document_id |-> d, retries |-> r]

\* Faulty variant of retry_allowed: the guard off by one.
retry_allowed_inclusive(retries) == retries <= max_retries

\* The retry guard of the except block (document_tasks.py:157).
retry_allowed(retries) == retries < max_retries

\* error_result (document_tasks.py:142-148)
error_result(d, err) ==
    [status |-> FAILED, progress |-> 0, document_id |-> d, error |-> err]

\* result (document_tasks.py:124-133)
success_result(d, nchunks, pages) ==
    [status |-> COMPLETED, progress |-> 100, document_id |-> d,
     chunks |-> nchunks, pages |-> pages]

Exec(m) ==
    [task_id |-> m.task_id, document_id |-> m.document_id,
     retries |-> m.retries, pc |-> "extract", pages |-> 0, nchunks |-> 0,
     embeddings |-> <<>>, npoints |-> 0, offset |-> 0, written |-> 0]

\* Variant of failure_state that classifies failures: an extraction or a
\* dimension failure ends the task at once, with the failed result.
failure_state_terminal(e, err) ==
    IF err \notin {"extraction", "dimension"} /\ e.retries < max_retries
    THEN [state |-> "RETRY", meta |-> [retries |-> e.retries]]
    ELSE [state |-> "SUCCESS",
          meta |-> [status |-> FAILED, progress |-> 0,
                    document_id |-> e.document_id, error |-> err]]

\* What the except block leaves in the backend for the task
\* (document_tasks.py:156-161): self.retry() marks it RETRY and sends the
\* same task again with retries + 1; otherwise error_result is RETURNED, so
\* the task ends in state SUCCESS with a result whose status is "failed".
failure_state(e, err) ==
    IF retry_allowed(e.retries)
    THEN [state |-> "RETRY", meta |-> [retries |-> e.retries]]
    ELSE [state |-> "SUCCESS", meta |-> error_result(e.document_id, err)]

\* Faulty variant of countdown: every retry waits the base delay.
countdown_flat(retries) == base_delay

\* self.retry(countdown=60 * (self.request.retries + 1)), in seconds.
countdown(retries) == base_delay * (retries + 1)

\* Faulty variant of retry_message: the retry is sent as a first attempt.
retry_message_reset(e) == Message(e.task_id, e.document_id, 0)

\* Faulty variant of retry_message: the retry count is not incremented.
retry_message_same_count(e) ==
    [task_id |-> e.task_id, document_id |-> e.document_id,
     retries |-> e.retries]

\* self.retry(): the message re-sent, with the task id of the request.
retry_message(e) == Message(e.task_id, e.document_id, e.retries + 1)

\* Faulty variant of Except: the clean-up is not guarded, so a delete_file
\* that raises leaves the except block: nothing is re-sent and the task ends
\* in state FAILURE.
Except_cleanup_propagates(e, err, rm_raises, others, q) ==
    IF delete_file_raises(uploads, e.document_id, rm_raises)
    THEN /\ execs' = others
         /\ queue' = q
         /\ backend' = Put(backend, e.task_id,
                           [state |-> "FAILURE", meta |-> [error |-> "cleanup"]])
         /\ out' = [op |-> "process_document", task_id |-> e.task_id,
                    document_id |-> e.document_id, retries |-> e.retries,
                    error |-> "cleanup", step |-> e.pc, offset |-> e.offset,
                    npoints |-> e.npoints, written |-> e.written,
                    outcome |-> FAILED, countdown |-> NoneVal,
                    cleanup_raised |-> TRUE]
         /\ UNCHANGED <<uploads, file_deleted>>
    ELSE
        /\ uploads' = delete_file(uploads, e.document_id, rm_raises)
        /\ file_deleted' =
              IF delete_file_raises(uploads, e.document_id, rm_raises)
              THEN file_deleted ELSE file_deleted \cup {e.document_id}
        /\ execs' = others
        /\ queue' = IF retry_allowed(e.retries)
                    THEN q \cup {retry_message(e)} ELSE q
        /\ backend' = Put(backend, e.task_id, failure_state(e, err))
        /\ out' = [op |-> "process_document", task_id |-> e.task_id,
                   document_id |-> e.document_id, retries |-> e.retries,
                   error |-> err, step |-> e.pc, offset |-> e.offset,
                   npoints |-> e.npoints, written |-> e.written,
                   outcome |-> IF retry_allowed(e.retries) THEN "retry"
                               ELSE FAILED,
                   countdown |-> IF retry_allowed(e.retries)
                                 THEN countdown(e.retries) ELSE NoneVal,
                   cleanup_raised |->
                       delete_file_raises(uploads, e.document_id, rm_raises)]

\* The except block (document_tasks.py:138-161), entered by the step of
\* execution e that raised err: best-effort delete_file, then retry or
\* return error_result.  others: the executions besides e; q: the queue.
Except(e, err, rm_raises, others, q) ==
    /\ uploads' = delete_file(uploads, e.document_id, rm_raises)
    /\ file_deleted' =
          IF delete_file_raises(uploads, e.document_id, rm_raises)
          THEN file_deleted ELSE file_deleted \cup {e.document_id}
    /\ execs' = others
    /\ queue' = IF retry_allowed(e.retries)
                THEN q \cup {retry_message(e)} ELSE q
    /\ backend' = Put(backend, e.task_id, failure_state(e, err))
    /\ out' = [op |-> "process_document", task_id |-> e.task_id,
               document_id |-> e.document_id, retries |-> e.retries,
               error |-> err, step |-> e.pc, offset |-> e.offset,
               npoints |-> e.npoints, written |-> e.written,
               outcome |-> IF retry_allowed(e.retries) THEN "retry"
                           ELSE FAILED,
               countdown |-> IF retry_allowed(e.retries)
                             THEN countdown(e.retries) ELSE NoneVal,
               cleanup_raised |->
                   delete_file_raises(uploads, e.document_id, rm_raises)]

\* A worker takes a message: services are initialised (a Qdrant outage makes
\* vector_store.initialize raise) and progress 10 is published.
Begin(m, init_fails, rm_raises) ==
    /\ m \in queue
    /\ Cardinality(execs) < MaxWorkers
    /\ rm_raises => init_fails
    /\ IF init_fails
       THEN Except(Exec(m), "init", rm_raises, execs, queue \ {m})
       ELSE /\ queue' = queue \ {m}
            /\ execs' = execs \cup {Exec(m)}
            /\ backend' = Put(backend, m.task_id,
                              ProgressMeta(10, m.document_id))
            /\ out' = NoOut
            /\ UNCHANGED <<uploads, file_deleted>>
    /\ \E index_raises \in BOOLEAN :
          collections' =
             IF init_fails THEN collections
             ELSE ensure_collection_exists(collections,
                                           index_raises).catalogue
    /\ UNCHANGED <<documents_db, uploading, ndocs, cleanup_queue, cleanups,
                   index>>
    /\ UNCHANGED starting

\* extract_text_from_pdf, then progress 30 and 50 (document_tasks.py:69-100).
Extract(e, rm_raises) ==
    /\ e \in execs /\ e.pc = "extract"
    /\ rm_raises => extract_raises(uploads, e.document_id)
    /\ IF extract_raises(uploads, e.document_id)
       THEN Except(e, "extraction", rm_raises, execs \ {e}, queue)
       ELSE /\ execs' = (execs \ {e}) \cup
                  {[e EXCEPT !.pc = "embed",
                             !.pages = uploads[e.document_id].page_count,
                             !.nchunks = uploads[e.document_id].chunks]}
            /\ backend' = Put(backend, e.task_id,
                              ProgressMeta(50, e.document_id))
            /\ out' = NoOut
            /\ UNCHANGED <<uploads, file_deleted, queue>>
    /\ UNCHANGED <<documents_db, uploading, ndocs, cleanup_queue, cleanups,
                   index>>
    /\ UNCHANGED collections
    /\ UNCHANGED starting

\* VectorStoreService.process_document up to the upsert loop: split, return 0
\* when there are no chunks, embed all chunks, build the points.
Embed(e, reply, rm_raises) ==
    /\ e \in execs /\ e.pc = "embed"
    /\ reply \in ProviderReplies(e.nchunks)
    /\ rm_raises => get_embeddings(e.nchunks, reply).outcome # "ok"
    /\ LET got == get_embeddings(e.nchunks, reply)
           n == NumPoints(e.nchunks, got.embeddings)
       IN  IF got.outcome # "ok"
           THEN Except(e, got.outcome, rm_raises, execs \ {e}, queue)
           ELSE /\ execs' = (execs \ {e}) \cup
                      {[e EXCEPT !.pc = IF n = 0 THEN "finish" ELSE "upsert",
                                 !.embeddings = got.embeddings,
                                 !.npoints = n]}
                /\ out' = NoOut
                /\ UNCHANGED <<uploads, file_deleted, queue, backend>>
    /\ UNCHANGED <<documents_db, uploading, ndocs, cleanup_queue, cleanups,
                   index>>
    /\ UNCHANGED collections
    /\ UNCHANGED starting

\* The execution after a batch was written (vector_store.py:135-141); written
\* counts the points the attempt has put into the collection.
upsert_next(e) ==
    [e EXCEPT !.offset = e.offset + batch_size,
              !.written = e.written + Cardinality(Batch(e, e.offset)),
              !.pc = IF e.offset + batch_size >= e.npoints
                     THEN "finish" ELSE "upsert"]

\* Faulty variant of UpsertBatch: a batch that raises is skipped and the
\* loop goes on with the next one.
UpsertBatch_continue(e, raises, rm_raises) ==
    /\ e \in execs /\ e.pc = "upsert"
    /\ ~rm_raises
    /\ index' = IF raises THEN index
                ELSE upsert(index, Batch(e, e.offset))
    /\ execs' = (execs \ {e}) \cup
          {[e EXCEPT !.offset = e.offset + batch_size,
                     !.written = IF raises THEN e.written
                                 ELSE e.written
                                      + Cardinality(Batch(e, e.offset)),
                     !.pc = IF e.offset + batch_size >= e.npoints
                            THEN "finish" ELSE "upsert"]}
    /\ out' = NoOut
    /\ UNCHANGED <<uploads, file_deleted, queue, backend, documents_db,
                   uploading, ndocs, cleanup_queue, cleanups>>
    /\ UNCHANGED collections
    /\ UNCHANGED starting

\* One pass of the upsert loop: the batch is written, or client.upsert
\* raises and the exception leaves the loop and the task body.
UpsertBatch(e, raises, rm_raises) ==
    /\ e \in execs /\ e.pc = "upsert"
    /\ rm_raises => raises
    /\ IF raises
       THEN /\ Except(e, "upsert", rm_raises, execs \ {e}, queue)
            /\ index' = index
       ELSE /\ index' = upsert(index, Batch(e, e.offset))
            /\ execs' = (execs \ {e}) \cup {upsert_next(e)}
            /\ out' = NoOut
            /\ UNCHANGED <<uploads, file_deleted, queue, backend>>
    /\ UNCHANGED <<documents_db, uploading, ndocs, cleanup_queue, cleanups>>
    /\ UNCHANGED collections
    /\ UNCHANGED starting

\* Faulty variant of Finish: the uploaded file is removed on success too.
Finish_removes_file(e) ==
    /\ e \in execs /\ e.pc = "finish"
    /\ execs' = execs \ {e}
    /\ backend' = Put(backend, e.task_id,
          [state |-> "SUCCESS",
           meta |-> success_result(e.document_id, e.nchunks, e.pages)])
    /\ out' = [op |-> "process_document", task_id |-> e.task_id,
               document_id |-> e.document_id, retries |-> e.retries,
               error |-> NoneVal, step |-> e.pc, offset |-> e.offset,
               npoints |-> e.npoints, written |-> e.written,
               outcome |-> COMPLETED, countdown |-> NoneVal,
               cleanup_raised |-> FALSE]
    /\ uploads' = delete_file(uploads, e.document_id, FALSE)
    /\ UNCHANGED <<documents_db, uploading, ndocs, queue,
                   cleanup_queue, cleanups, index, file_deleted>>
    /\ UNCHANGED collections
    /\ UNCHANGED starting

\* Progress 90, then the task returns its result: state SUCCESS.
Finish(e) ==
    /\ e \in execs /\ e.pc = "finish"
    /\ execs' = execs \ {e}
    /\ backend' = Put(backend, e.task_id,
          [state |-> "SUCCESS",
           meta |-> success_result(e.document_id, e.nchunks, e.pages)])
    /\ out' = [op |-> "process_document", task_id |-> e.task_id,
               document_id |-> e.document_id, retries |-> e.retries,
               error |-> NoneVal, step |-> e.pc, offset |-> e.offset,
               npoints |-> e.npoints, written |-> e.written,
               outcome |-> COMPLETED, countdown |-> NoneVal,
               cleanup_raised |-> FALSE]
    /\ UNCHANGED <<documents_db, uploads, uploading, ndocs, queue,
                   cleanup_queue, cleanups, index, file_deleted>>
    /\ UNCHANGED collections
    /\ UNCHANGED starting

\* cleanup_document (document_tasks.py:167-208): every exception is caught
\* and returned as status "error".  A Qdrant failure skips the file.
CleanupDocument(m, page, qdrant_raises, rm_raises) ==
    /\ m \in cleanup_queue
    /\ page \in scroll(index, m.document_id)
    /\ cleanup_queue' = cleanup_queue \ {m}
    /\ LET removed == delete_document(index, m.document_id, page)
           file_raises == delete_file_raises(uploads, m.file_path, rm_raises)
           status == IF qdrant_raises \/ file_raises THEN "error"
                     ELSE "success"
       IN  /\ index' = IF qdrant_raises THEN index
                       ELSE removed.index
           /\ uploads' = IF qdrant_raises THEN uploads
                         ELSE delete_file(uploads, m.file_path, rm_raises)
           /\ file_deleted' = IF qdrant_raises \/ file_raises
                              THEN file_deleted
                              ELSE file_deleted \cup {m.file_path}
           /\ cleanups' = Put(cleanups, m.document_id, status)
           /\ out' = [op |-> "cleanup_document",
                      document_id |-> m.document_id, status |-> status,
                      tagged |-> Count(index, Matching(index, m.document_id)),
                      deleted_chunks |-> IF qdrant_raises THEN 0
                                         ELSE removed.deleted]
    /\ \E index_raises \in BOOLEAN :
          collections' =
             IF qdrant_raises THEN collections
             ELSE ensure_collection_exists(collections,
                                           index_raises).catalogue
    /\ UNCHANGED <<documents_db, uploading, ndocs, queue, backend, execs>>
    /\ UNCHANGED starting

\* The result backend forgets a stored result result_expires (3600 s) after
\* the task returned it (celery_app.py:42): AsyncResult(task_id).state is
\* PENDING again.
Expire(t) ==
    /\ t \in DOMAIN backend
    /\ backend[t].state = "SUCCESS"
    /\ backend' = Drop(backend, t)
    /\ out' = NoOut
    /\ UNCHANGED <<documents_db, uploads, uploading, ndocs, queue,
                   cleanup_queue, cleanups, execs, index, collections,
                   file_deleted>>
    /\ UNCHANGED starting

(***************************************************************************)
(* API handlers (app/main.py)                                              *)
(***************************************************************************)
\* The server's event loop runs one handler at a time between awaits.
Idle == uploading = NoneVal

\* upload_document up to process_document.delay(): the file is saved, the
\* record is created in state uploading, the task message is sent.  The
\* worker is another process and may take the message before the handler
\* goes on.
UploadStart(c, outcome) ==
    /\ Idle /\ ndocs < Len(DocNames)
    /\ c \in Contents
    /\ outcome \in {"ok", "save_fails", "delay_fails"}
    /\ LET d == DocNames[ndocs + 1]
           t == TaskNames[ndocs + 1]
       IN  IF outcome = "save_fails"
           THEN /\ out' = [op |-> "upload", code |-> 400]
                /\ UNCHANGED <<documents_db, uploads, uploading, ndocs, queue>>
           ELSE /\ ndocs' = ndocs + 1
                /\ uploads' = Put(uploads, d, c)
                /\ documents_db' = Put(documents_db, d,
                      [status |-> UPLOADING, task_id |-> NoneVal,
                       pages |-> <<>>, error |-> NoneVal])
                /\ IF outcome = "delay_fails"
                   THEN /\ out' = [op |-> "upload", code |-> 400]
                        /\ UNCHANGED <<uploading, queue>>
                   ELSE /\ queue' = queue \cup {Message(t, d, 0)}
                        /\ uploading' = d
                        /\ out' = NoOut
    /\ UNCHANGED <<cleanup_queue, backend, cleanups, execs, index,
                   file_deleted>>
    /\ UNCHANGED collections
    /\ UNCHANGED starting

\* upload_document, lines 172-184: task id and state processing recorded.
UploadFinish ==
    /\ ~Idle
    /\ documents_db' = [documents_db EXCEPT
          ![uploading] = [@ EXCEPT !.task_id = TaskNames[Ord(uploading) - 1],
                                   !.status = PROCESSING]]
    /\ out' = [op |-> "upload", code |-> 200, document_id |-> uploading,
               status |-> PROCESSING]
    /\ uploading' = NoneVal
    /\ UNCHANGED <<uploads, ndocs, queue, cleanup_queue, backend, cleanups,
                   execs, index, file_deleted>>
    /\ UNCHANGED collections
    /\ UNCHANGED starting

\* Faulty variant of status_update: the record mirrors the task at every
\* poll, a failed attempt awaiting its retry included.
status_update_mirrors_task(doc_info) ==
    IF ~Truthy(doc_info.task_id) THEN doc_info
    ELSE IF ResultState(doc_info.task_id) = "SUCCESS"
    THEN [doc_info EXCEPT !.status = backend[doc_info.task_id].meta.status]
    ELSE IF ResultState(doc_info.task_id) \in {"FAILURE", "RETRY"}
    THEN [doc_info EXCEPT !.status = FAILED]
    ELSE [doc_info EXCEPT !.status = PROCESSING]

\* get_document_status, lines 200-211: what the handler writes to doc_info.
status_update(doc_info) ==
    IF doc_info.status = PROCESSING /\ Truthy(doc_info.task_id)
    THEN IF ResultState(doc_info.task_id) = "SUCCESS"
         THEN [doc_info EXCEPT
                 !.status = backend[doc_info.task_id].meta.status,
                 !.pages = IF "pages" \in DOMAIN backend[doc_info.task_id].meta
                           THEN <<backend[doc_info.task_id].meta.pages>>
                           ELSE <<>>]
         ELSE IF ResultState(doc_info.task_id) = "FAILURE"
         THEN [doc_info EXCEPT !.status = FAILED,
                               !.error = backend[doc_info.task_id].meta.error]
         ELSE doc_info
    ELSE doc_info

get_document_status(d) ==
    /\ Idle
    /\ IF d \notin DOMAIN documents_db
       THEN /\ out' = [op |-> "status", document_id |-> d, code |-> 404]
            /\ UNCHANGED documents_db
       ELSE LET doc_info == status_update(documents_db[d])
            IN  /\ documents_db' = [documents_db EXCEPT ![d] = doc_info]
                /\ out' = [op |-> "status", document_id |-> d, code |-> 200,
                           status |-> doc_info.status,
                           pages |-> doc_info.pages,
                           error |-> doc_info.error]
    /\ UNCHANGED <<uploads, uploading, ndocs, queue, cleanup_queue, backend,
                   cleanups, execs, index, file_deleted>>
    /\ UNCHANGED collections
    /\ UNCHANGED starting

\* list_documents (main.py:230-256): one entry per record of documents_db,
\* with the record's status; total is their number.
list_documents ==
    [op |-> "list", code |-> 200,
     documents |-> [d \in DOMAIN documents_db |-> documents_db[d].status],
     total |-> Cardinality(DOMAIN documents_db)]

List ==
    /\ Idle
    /\ out' = list_documents
    /\ UNCHANGED <<documents_db, uploads, uploading, ndocs, queue,
                   cleanup_queue, backend, cleanups, execs, index,
                   file_deleted>>
    /\ UNCHANGED collections
    /\ UNCHANGED starting

\* The keys of a point's payload (vector_store.py:116-123): the fields of
\* point_metadata and those of the task's combined_metadata
\* (document_tasks.py:84-88, document_processor.py:103-117).
payload_keys ==
    {"document_id", "filename", "chunk_index", "content", "chunk_size",
     "uploaded_by", "page_count", "text_length", "file_size", "file_path",
     "title", "author", "subject", "creator", "processing_timestamp"}

\* The keys of a hit's "metadata" (vector_store.py:208-209).
hit_metadata_keys ==
    payload_keys \ {"content", "document_id", "filename", "chunk_index"}

\* result.get("metadata", {}).get("page_number")
page_number(hit) ==
    IF "page_number" \in hit_metadata_keys THEN "page_number" ELSE NoneVal

\* SourceDocument(content, page_number, confidence_score) of one hit; the
\* chunk's text is given by the chunk it is the text of.
SourceDocument(hit) ==
    [content |-> <<hit.document_id, hit.chunk_index>>,
     page_number |-> page_number(hit),
     confidence_score |-> hit.score]

\* chat_with_document, lines 297-304: one source document per hit, in order.
source_docs(hits) == [i \in 1..Len(hits) |-> SourceDocument(hits[i])]

\* Faulty variant of chat_with_document: the retrieval runs before the
\* state of the document is looked at.
chat_with_document_search_first(d, q, reply, search_raises, gen_raises) ==
    IF d \notin DOMAIN documents_db
    THEN [op |-> "chat", document_id |-> d, code |-> 404, calls |-> <<>>]
    ELSE LET found == search_similar(index, q, d, chat_limit,
                                     chat_score_threshold, reply,
                                     search_raises)
         IN  IF documents_db[d].status # COMPLETED
             THEN [op |-> "chat", document_id |-> d, code |-> 400,
                   status |-> documents_db[d].status,
                   calls |-> <<"scroll">> \o found.calls]
             ELSE IF found.outcome # "ok"
             THEN [op |-> "chat", document_id |-> d, code |-> 500,
                   calls |-> <<"scroll">> \o found.calls]
             ELSE IF gen_raises
             THEN [op |-> "chat", document_id |-> d, code |-> 500,
                   calls |-> <<"scroll">> \o found.calls \o <<"generate">>]
             ELSE [op |-> "chat", document_id |-> d, code |-> 200,
                   sources |-> source_docs(found.hits),
                   calls |-> <<"scroll">> \o found.calls \o <<"generate">>]

\* LLMService._build_context (llm.py:117-124): the fixed sentence when there
\* is no source document, else the excerpts.
no_context == "No relevant context found in the document."
build_context(context_documents) ==
    IF Len(context_documents) = 0 THEN no_context ELSE "excerpts"

\* Faulty variant of chat_with_document: without hits the handler answers
\* by itself and the generation provider is not called.
chat_with_document_skips_generation(d, q, reply, search_raises, gen_raises) ==
    IF d \notin DOMAIN documents_db
    THEN [op |-> "chat", document_id |-> d, code |-> 404, calls |-> <<>>]
    ELSE IF documents_db[d].status # COMPLETED
    THEN [op |-> "chat", document_id |-> d, code |-> 400,
          status |-> documents_db[d].status, calls |-> <<>>]
    ELSE LET found == search_similar(index, q, d, chat_limit,
                                     chat_score_threshold, reply,
                                     search_raises)
         IN  IF found.outcome # "ok"
             THEN [op |-> "chat", document_id |-> d, code |-> 500,
                   task_type |-> found.task_type,
                   calls |-> <<"scroll">> \o found.calls]
             ELSE IF Len(found.hits) = 0
             THEN [op |-> "chat", document_id |-> d, code |-> 200,
                   sources |-> source_docs(found.hits),
                   context |-> build_context(found.hits),
                   task_type |-> found.task_type,
                   calls |-> <<"scroll">> \o found.calls]
             ELSE IF gen_raises
             THEN [op |-> "chat", document_id |-> d, code |-> 500,
                   sources |-> source_docs(found.hits),
                   context |-> build_context(found.hits),
                   task_type |-> found.task_type,
                   calls |-> <<"scroll">> \o found.calls \o <<"generate">>]
             ELSE [op |-> "chat", document_id |-> d, code |-> 200,
                   sources |-> source_docs(found.hits),
                   context |-> build_context(found.hits),
                   task_type |-> found.task_type,
                   calls |-> <<"scroll">> \o found.calls \o <<"generate">>]

\* chat_with_document: the response, with the calls made to the index
\* ("scroll", "search"), the embedding provider and the generation provider;
\* once the search has returned, with the source documents built from the
\* hits and the context handed to the generation provider.
chat_with_document(d, q, reply, search_raises, gen_raises) ==
    IF d \notin DOMAIN documents_db
    THEN [op |-> "chat", document_id |-> d, code |-> 404, calls |-> <<>>]
    ELSE IF documents_db[d].status # COMPLETED
    THEN [op |-> "chat", document_id |-> d, code |-> 400,
          status |-> documents_db[d].status, calls |-> <<>>]
    ELSE LET found == search_similar(index, q, d, chat_limit,
                                     chat_score_threshold, reply,
                                     search_raises)
         IN  IF found.outcome # "ok"
             THEN [op |-> "chat", document_id |-> d, code |-> 500,
                   task_type |-> found.task_type,
                   calls |-> <<"scroll">> \o found.calls]
             ELSE IF gen_raises
             THEN [op |-> "chat", document_id |-> d, code |-> 500,
                   sources |-> source_docs(found.hits),
                   context |-> build_context(found.hits),
                   task_type |-> found.task_type,
                   calls |-> <<"scroll">> \o found.calls \o <<"generate">>]
             ELSE [op |-> "chat", document_id |-> d, code |-> 200,
                   sources |-> source_docs(found.hits),
                   context |-> build_context(found.hits),
                   task_type |-> found.task_type,
                   calls |-> <<"scroll">> \o found.calls \o <<"generate">>]

\* Of the environment's choices only those the handler gets to matter: the
\* search after the embedding, the generation after the search.
Consulted(reply, search_raises, gen_raises) ==
    /\ (search_raises => get_embeddings(1, reply).outcome = "ok"
                            /\ Len(reply.embeddings) > 0)
    /\ (gen_raises => get_embeddings(1, reply).outcome = "ok"
                         /\ Len(reply.embeddings) > 0 /\ ~search_raises)

\* Faulty variant of Chat: the handler refreshes the record from the task
\* result, as get_document_status does, after answering.
Chat_refreshes_record(d, q, reply, search_raises, gen_raises) ==
    /\ Idle
    /\ Consulted(reply, search_raises, gen_raises)
    /\ out' = chat_with_document(d, q, reply, search_raises, gen_raises)
    /\ documents_db' =
          [x \in DOMAIN documents_db |->
              IF x = d THEN status_update(documents_db[x])
              ELSE documents_db[x]]
    /\ UNCHANGED <<uploads, uploading, ndocs, queue, cleanup_queue, backend,
                   cleanups, execs, index, file_deleted>>
    /\ UNCHANGED collections
    /\ UNCHANGED starting

Chat(d, q, reply, search_raises, gen_raises) ==
    /\ Idle
    /\ Consulted(reply, search_raises, gen_raises)
    /\ out' = chat_with_document(d, q, reply, search_raises, gen_raises)
    /\ UNCHANGED <<documents_db, uploads, uploading, ndocs, queue,
                   cleanup_queue, backend, cleanups, execs, index,
                   file_deleted>>
    /\ UNCHANGED collections
    /\ UNCHANGED starting

\* search_documents: search_similar with the request's filter and limit.
search_documents(q, document_id, limit, reply, search_raises) ==
    LET found == search_similar(index, q, document_id, limit,
                                search_score_threshold, reply, search_raises)
    IN  IF found.outcome # "ok"
        THEN [op |-> "search", document_id |-> document_id, limit |-> limit,
              code |-> 500, task_type |-> found.task_type]
        ELSE [op |-> "search", document_id |-> document_id, limit |-> limit,
              code |-> 200, results |-> found.hits,
              task_type |-> found.task_type]

Search(q, document_id, limit, reply, search_raises) ==
    /\ Idle
    /\ Consulted(reply, search_raises, FALSE)
    /\ out' = search_documents(q, document_id, limit, reply, search_raises)
    /\ UNCHANGED <<documents_db, uploads, uploading, ndocs, queue,
                   cleanup_queue, backend, cleanups, execs, index,
                   file_deleted>>
    /\ UNCHANGED collections
    /\ UNCHANGED starting

\* Faulty variant of Delete: the record is left in the registry for the
\* cleanup task to remove.
Delete_keeps_record(d, delay_fails) ==
    /\ Idle
    /\ IF d \notin DOMAIN documents_db
       THEN /\ out' = [op |-> "delete", document_id |-> d, code |-> 404]
            /\ UNCHANGED cleanup_queue
       ELSE /\ cleanup_queue' =
                  IF delay_fails THEN cleanup_queue
                  ELSE cleanup_queue \cup
                          {[document_id |-> d, file_path |-> d]}
            /\ out' = [op |-> "delete", document_id |-> d, code |-> 200,
                       cleanup_sent |-> ~delay_fails]
    /\ UNCHANGED <<documents_db, uploads, uploading, ndocs, queue, backend,
                   cleanups, execs, index, file_deleted>>
    /\ UNCHANGED collections
    /\ UNCHANGED starting

\* delete_document (main.py:371-397): the record is removed; the background
\* task, run once the response is sent, sends the cleanup_document message
\* (a failure of that send is only logged).
Delete(d, delay_fails) ==
    /\ Idle
    /\ IF d \notin DOMAIN documents_db
       THEN /\ out' = [op |-> "delete", document_id |-> d, code |-> 404]
            /\ UNCHANGED <<documents_db, cleanup_queue>>
       ELSE /\ documents_db' = Drop(documents_db, d)
            /\ cleanup_queue' =
                  IF delay_fails THEN cleanup_queue
                  ELSE cleanup_queue \cup
                          {[document_id |-> d, file_path |-> d]}
            /\ out' = [op |-> "delete", document_id |-> d, code |-> 200,
                       cleanup_sent |-> ~delay_fails]
    /\ UNCHANGED <<uploads, uploading, ndocs, queue, backend, cleanups,
                   execs, index, file_deleted>>
    /\ UNCHANGED collections
    /\ UNCHANGED starting

\* The collection as an earlier run left it: one document of two chunks.
OldIndex ==
    [p \in {Point(OldDoc, 0, dimension), Point(OldDoc, 1, dimension)} |-> 1]

Init ==
    /\ documents_db = EmptyMap
    /\ uploads = EmptyMap
    /\ uploading = NoneVal
    /\ ndocs = 0
    /\ queue = {}
    /\ cleanup_queue = {}
    /\ backend = EmptyMap
    /\ cleanups = EmptyMap
    /\ execs = {}
    /\ index = OldIndex
    /\ collections = ensure_collection_exists(EmptyMap, FALSE).catalogue
    /\ starting = [p \in Procs |-> "ready"]
    /\ file_deleted = {}
    /\ out = NoOut

Requested == DocIds \cup {NoneVal, EmptyStr}

Next ==
    \/ \E c \in Contents, o \in {"ok", "save_fails", "delay_fails"} :
          UploadStart(c, o)
    \/ UploadFinish
    \/ \E d \in DocIds : get_document_status(d)
    \/ List
    \/ \E d \in DocIds, q \in Queries, reply \in ProviderReplies(1),
          sr \in BOOLEAN, gr \in BOOLEAN : Chat(d, q, reply, sr, gr)
    \/ \E q \in Queries, d \in Requested, l \in Limits,
          reply \in ProviderReplies(1), sr \in BOOLEAN :
          Search(q, d, l, reply, sr)
    \/ \E d \in DocIds, f \in BOOLEAN : Delete(d, f)
    \/ \E m \in queue, f \in BOOLEAN, r \in BOOLEAN : Begin(m, f, r)
    \/ \E e \in execs, r \in BOOLEAN : Extract(e, r)
    \/ \E e \in execs, r \in BOOLEAN :
          \E reply \in ProviderReplies(e.nchunks) : Embed(e, reply, r)
    \/ \E e \in execs, f \in BOOLEAN, r \in BOOLEAN : UpsertBatch(e, f, r)
    \/ \E e \in execs : Finish(e)
    \/ \E m \in cleanup_queue, f \in BOOLEAN, r \in BOOLEAN :
          \E page \in scroll(index, m.document_id) :
             CleanupDocument(m, page, f, r)
    \/ \E t \in DOMAIN backend : Expire(t)

(***************************************************************************)
(* Redelivery (workers/celery_app.py:32-39, 51).  With task_acks_late a    *)
(* message is acknowledged when its execution ends; the Redis transport    *)
(* hands a message that stayed unacknowledged for visibility_timeout       *)
(* (3600 s) to the queue again.  Spec describes the runs in which every    *)
(* execution ends within that time; SpecRedelivery adds the others.        *)
(***************************************************************************)
\* The message of running execution e becomes visible again.  Executions
\* are told apart by their state, so the message returns once e has
\* published its progress of 30; it returns while e has written no point
\* yet (the embedding request that does not come back), which keeps the
\* index of the model finite.
Redeliver(e) ==
    /\ e \in execs
    /\ e.pc # "extract"
    /\ e.retries = max_retries
    /\ Matching(index, e.document_id) = {}
    /\ Message(e.task_id, e.document_id, e.retries) \notin queue
    /\ queue' = queue \cup {Message(e.task_id, e.document_id, e.retries)}
    /\ out' = NoOut
    /\ UNCHANGED <<documents_db, uploads, uploading, ndocs, cleanup_queue,
                   backend, cleanups, execs, index, collections,
                   file_deleted>>
    /\ UNCHANGED starting

\* The ingestion pipeline, upload to result, with redelivery.
NextRedelivery ==
    \/ \E c \in Contents, o \in {"ok", "save_fails", "delay_fails"} :
          UploadStart(c, o)
    \/ UploadFinish
    \/ \E m \in queue, f \in BOOLEAN, r \in BOOLEAN : Begin(m, f, r)
    \/ \E e \in execs, r \in BOOLEAN : Extract(e, r)
    \/ \E e \in execs, r \in BOOLEAN :
          \E reply \in ProviderReplies(e.nchunks) : Embed(e, reply, r)
    \/ \E e \in execs, f \in BOOLEAN, r \in BOOLEAN : UpsertBatch(e, f, r)
    \/ \E e \in execs : Finish(e)
    \/ \E e \in execs : Redeliver(e)

SpecRedelivery == Init /\ [][NextRedelivery]_vars

(***************************************************************************)
(* The worker at work.  A worker takes the message that waits in its queue *)
(* and runs the task body to its end: every call the body makes returns or *)
(* raises.  SpecLive is Spec with that assumption.                         *)
(***************************************************************************)
WorkerStep ==
    \/ \E m \in queue, f \in BOOLEAN, r \in BOOLEAN : Begin(m, f, r)
    \/ \E e \in execs, r \in BOOLEAN : Extract(e, r)
    \/ \E e \in execs, r \in BOOLEAN :
          \E reply \in ProviderReplies(e.nchunks) : Embed(e, reply, r)
    \/ \E e \in execs, f \in BOOLEAN, r \in BOOLEAN : UpsertBatch(e, f, r)
    \/ \E e \in execs : Finish(e)

SpecLive == Init /\ [][Next]_vars /\ WF_vars(WorkerStep)

(***************************************************************************)
(* Initialisation against a Qdrant that has no collection yet.  The calls  *)
(* of ensure_collection_exists (vector_store.py:47-84) are requests to     *)
(* Qdrant, and those of several processes interleave.                      *)
(***************************************************************************)
\* client.get_collections(), lines 50-53: the process goes on to create the
\* collection when the answer does not list it.
GetCollections(p) ==
    /\ starting[p] = "list"
    /\ starting' = [starting EXCEPT ![p] =
                       IF collection_name \in DOMAIN collections
                       THEN "index" ELSE "create"]
    /\ UNCHANGED <<documents_db, uploads, uploading, ndocs, queue,
                   cleanup_queue, backend, cleanups, execs, index,
                   collections, file_deleted, out>>

\* client.create_collection(), lines 56-62: Qdrant refuses a name that is
\* taken, and the outer except block re-raises (lines 82-84).
CreateCollection(p) ==
    /\ starting[p] = "create"
    /\ IF collection_name \in DOMAIN collections
       THEN /\ starting' = [starting EXCEPT ![p] = "failed"]
            /\ UNCHANGED collections
       ELSE /\ starting' = [starting EXCEPT ![p] = "index"]
            /\ collections' =
                  [n \in {collection_name} |->
                      [size |-> collection_size, payload_index |-> FALSE]]
    /\ UNCHANGED <<documents_db, uploads, uploading, ndocs, queue,
                   cleanup_queue, backend, cleanups, execs, index,
                   file_deleted, out>>

\* client.create_payload_index(), lines 68-80: whatever it raises is logged.
CreatePayloadIndex(p, index_raises) ==
    /\ starting[p] = "index"
    /\ starting' = [starting EXCEPT ![p] = "ready"]
    /\ collections' =
          IF index_raises THEN collections
          ELSE [collections EXCEPT ![collection_name].payload_index = TRUE]
    /\ UNCHANGED <<documents_db, uploads, uploading, ndocs, queue,
                   cleanup_queue, backend, cleanups, execs, index,
                   file_deleted, out>>

InitStartup ==
    /\ documents_db = EmptyMap
    /\ uploads = EmptyMap
    /\ uploading = NoneVal
    /\ ndocs = 0
    /\ queue = {}
    /\ cleanup_queue = {}
    /\ backend = EmptyMap
    /\ cleanups = EmptyMap
    /\ execs = {}
    /\ index = EmptyMap
    /\ collections = EmptyMap
    /\ starting = [p \in Procs |-> "list"]
    /\ file_deleted = {}
    /\ out = NoOut

NextStartup ==
    \/ \E p \in Procs : GetCollections(p)
    \/ \E p \in Procs : CreateCollection(p)
    \/ \E p \in Procs, r \in BOOLEAN : CreatePayloadIndex(p, r)

SpecStartup == InitStartup /\ [][NextStartup]_vars

(***************************************************************************)
(* Properties                                                              *)
(***************************************************************************)
\* The document ids generated so far, and those whose record Delete removed.
Allocated == {DocNames[i] : i \in 1..ndocs}
Deleted == Allocated \ DOMAIN documents_db

TaskOf(d) == TaskNames[Ord(d) - 1]
MessagesOf(t) == {m \in queue : m.task_id = t}
ExecsOf(t) == {e \in execs : e.task_id = t}
Ended == out.op = "process_document"

\* C1: a chat request for a document of the registry that is not completed
\* (uploading, processing or failed) is answered 400 with the current state,
\* and no call was made for it: no embedding, no index scroll or search, no
\* generation.
C1_ChatRejectedBeforeRetrieval ==
    (/\ out.op = "chat"
     /\ out.document_id \in DOMAIN documents_db
     /\ documents_db[out.document_id].status # COMPLETED)
    => /\ out.code = 400
       /\ out.status = documents_db[out.document_id].status
       /\ out.calls = <<>>

C1_Witness ==
    /\ out.op = "chat"
    /\ out.code = 400
    /\ out.status = FAILED

\* C2 (as claimed): a search scoped to a document id whose Delete has
\* returned yields no hit, whether or not cleanup_document has run.
C2_SearchOfDeletedIsEmpty ==
    (/\ out.op = "search"
     /\ out.code = 200
     /\ out.document_id \in Deleted)
    => out.results = <<>>

\* C3 (as claimed): once a document is deleted, its job has ended and its
\* cleanup task has returned success, the index holds no point of it.
C3_NoChunksOnceJobAndCleanupEnded ==
    \A d \in Deleted :
       (/\ MessagesOf(TaskOf(d)) = {}
        /\ ExecsOf(TaskOf(d)) = {}
        /\ cleanup_queue = {}
        /\ d \in DOMAIN cleanups
        /\ cleanups[d] = "success")
       => Matching(index, d) = {}

\* C4 (as claimed): every hit of a search called with a document id (one
\* that is not None) carries that document id.
C4_HitsBelongToRequestedDocument ==
    (/\ out.op = "search"
     /\ out.code = 200
     /\ out.document_id # NoneVal)
    => \A i \in 1..Len(out.results) :
          out.results[i].document_id = out.document_id

\* C5: the retry count of a job never exceeds max_retries (3): no message
\* and no execution carries a higher count, the attempt with count 3 is not
\* followed by a retry, and a task that has ended has no message queued.
C5_RetriesNeverExceedMax ==
    /\ \A m \in queue : m.retries <= max_retries
    /\ \A e \in execs : e.retries <= max_retries
    /\ (Ended /\ out.retries >= max_retries)
          => /\ out.outcome # "retry"
             /\ MessagesOf(out.task_id) = {}
    /\ \A t \in DOMAIN backend :
          backend[t].state = "SUCCESS" => MessagesOf(t) = {}

C5_Witness ==
    /\ Ended
    /\ out.retries = max_retries
    /\ out.outcome = FAILED

\* C6 (as claimed): a Status response that reports failed carries a
\* non-empty error.
C6_FailedStatusCarriesError ==
    (/\ out.op = "status"
     /\ out.code = 200
     /\ out.status = FAILED)
    => Truthy(out.error)

\* C7: an attempt that fails with a retry count below 3 re-sends the same
\* task id with the count incremented by one and leaves the task in RETRY;
\* while a retry is pending (queued, or the task in RETRY) Status reports
\* processing and the record is not failed.
C7_RetryKeepsJobAndProcessing ==
    /\ (Ended /\ out.error # NoneVal /\ out.retries < max_retries)
          => /\ out.outcome = "retry"
             /\ MessagesOf(out.task_id) =
                   {Message(out.task_id, out.document_id, out.retries + 1)}
             /\ ResultState(out.task_id) = "RETRY"
    /\ \A d \in DOMAIN documents_db :
          (MessagesOf(TaskOf(d)) # {} \/ ResultState(TaskOf(d)) = "RETRY")
             => documents_db[d].status \in {UPLOADING, PROCESSING}
    /\ (/\ out.op = "status"
        /\ out.code = 200
        /\ ResultState(TaskOf(out.document_id)) = "RETRY")
          => out.status = PROCESSING

C7_Witness ==
    /\ out.op = "status"
    /\ out.code = 200
    /\ out.status = PROCESSING
    /\ ResultState(TaskOf(out.document_id)) = "RETRY"
    /\ backend[TaskOf(out.document_id)].meta.retries = 1

\* C8 (as claimed): an attempt that fails in extraction or on a vector of
\* the wrong dimension is not retried.
C8_TerminalErrorsNotRetried ==
    (Ended /\ out.error \in {"extraction", "dimension"})
    => out.outcome # "retry"

\* C8 (amended): an extraction or dimension failure is handled like every
\* other failure: below retry count 3 the task is re-sent and left in RETRY;
\* the failed result is returned only by the attempt with retry count 3.
C8_TerminalErrorsRetriedLikeOthers ==
    (Ended /\ out.error \in {"extraction", "dimension"})
    => IF out.retries < max_retries
       THEN /\ out.outcome = "retry"
            /\ Message(out.task_id, out.document_id, out.retries + 1) \in queue
            /\ backend[out.task_id].state = "RETRY"
       ELSE /\ out.outcome = FAILED
            /\ backend[out.task_id].state = "SUCCESS"
            /\ backend[out.task_id].meta.status = FAILED
            /\ backend[out.task_id].meta.error = out.error

C8_Witness ==
    /\ Ended
    /\ out.error = "dimension"
    /\ out.outcome = "retry"

C10_CompletedOnlyAfterAllBatches ==
    /\ (Ended /\ out.outcome = COMPLETED)
          => /\ out.step = "finish"
             /\ out.error = NoneVal
             /\ out.written = out.npoints
             /\ out.offset >= out.npoints
    /\ (Ended /\ out.error = "upsert")
          => /\ out.outcome # COMPLETED
             /\ out.written = out.offset
             /\ out.written < out.npoints
             /\ ExecsOf(out.task_id) = {}
             /\ ~(/\ backend[out.task_id].state = "SUCCESS"
                  /\ backend[out.task_id].meta.status = COMPLETED)
    /\ \A e \in execs : e.written = Min(e.offset, e.npoints)

C10_Witness ==
    /\ Ended
    /\ out.error = "upsert"
    /\ out.written > 0

\* C11 (as claimed): a delete_document call that returns removes every point
\* tagged with the document id, however many there are, and returns their
\* number (0 when there is none).
C11_DeleteRemovesEveryChunk ==
    (/\ out.op = "cleanup_document"
     /\ out.status = "success")
    => /\ out.deleted_chunks = out.tagged
       /\ Matching(index, out.document_id) = {}

\* C12: once Delete has answered 200 for a document id the registry does not
\* hold it and never holds it again: Status and Chat for it answer 404 (a
\* response without a processing state), List omits it, whether the cleanup
\* task is still queued, succeeded, failed or was never sent; Delete itself
\* answers 200 even when the cleanup message could not be sent.
C12_DeletedStaysNotFound ==
    /\ [](IF out.op = "delete"
          THEN out.code = 200 => out.document_id \in Deleted
          ELSE IF out.op \in {"status", "chat"}
          THEN out.document_id \in Deleted
                  => (out.code = 404 /\ "status" \notin DOMAIN out)
          ELSE IF out.op = "list"
          THEN /\ DOMAIN out.documents = DOMAIN documents_db
               /\ DOMAIN out.documents \cap Deleted = {}
               /\ out.total = Cardinality(DOMAIN out.documents)
          ELSE TRUE)
    /\ [][Deleted \subseteq Deleted']_vars

C12_Witness ==
    /\ out.op = "status"
    /\ out.code = 404
    /\ out.document_id \in Deleted
    /\ out.document_id \in DOMAIN cleanups
    /\ cleanups[out.document_id] = "error"

\* C13: every point of the index has a vector of the configured dimension
\* (768), which is the size the collection is created with; an attempt whose
\* embedding reply holds a vector of another length fails in the embedding
\* step, before any of its points is upserted.
C13_IndexedVectorsHaveDimension ==
    /\ collection_size = dimension
    /\ \A p \in DOMAIN index : p.vector = collection_size
    /\ \A e \in execs :
          \A i \in 1..Len(e.embeddings) : e.embeddings[i] = dimension
    /\ (Ended /\ out.error = "dimension")
          => /\ out.step = "embed"
             /\ out.written = 0

C13_Witness ==
    /\ Ended
    /\ out.error = "dimension"
    /\ out.retries > 0
    /\ Matching(index, out.document_id) # {}

\* C14 (as claimed): whenever get_embeddings returns for the chunks of an
\* attempt, it returns exactly one vector per chunk (a provider reply of
\* another length is a failure, not a shorter result).
C14_OneVectorPerText ==
    \A e \in execs :
       e.pc \in {"upsert", "finish"} => Len(e.embeddings) = e.nchunks

\* C15 (as claimed): when an attempt returns the completed result for a
\* document of the registry, the chunk count of the result and the number of
\* points the index holds for the document both equal the number of chunks
\* the splitter produced.
C15_ChunkCountMatchesSplit ==
    (/\ Ended
     /\ out.outcome = COMPLETED
     /\ out.document_id \in DOMAIN documents_db)
    => Count(index, Matching(index, out.document_id))
          = backend[out.task_id].meta.chunks

\* C16 (as claimed): a Status or List request only reads: no step that
\* answers one changes the state of any record of the registry.
C16_StatusAndListOnlyRead ==
    [][out'.op \in {"status", "list"}
         => \A d \in DOMAIN documents_db :
               /\ d \in DOMAIN documents_db'
               /\ documents_db'[d].status = documents_db[d].status]_vars

\* C17: a Chat or Search request, whether it is answered 200, rejected (404,
\* 400) or fails (500), leaves the registry (the set of records and every
\* field of each) and the points of the index as they were.
C17_ChatAndSearchReadOnly ==
    [][out'.op \in {"chat", "search"}
         => /\ documents_db' = documents_db
            /\ index' = index]_vars

C17_Witness ==
    /\ out.op = "chat"
    /\ out.code = 200
    /\ Len(out.sources) > 0
    /\ Matching(index, out.document_id) # {}

\* One step of a record's state along uploading -> processing ->
\* {completed, failed}.
Forward(old, new) ==
    \/ new = old
    \/ old = UPLOADING /\ new = PROCESSING
    \/ old = PROCESSING /\ new \in {COMPLETED, FAILED}

\* C18: the state of a record only moves forward: a record is created in
\* uploading, no step takes it back to uploading, and once it is completed
\* or failed no step changes its state; only Delete removes it.
C18_StateOnlyMovesForward ==
    [][/\ \A d \in DOMAIN documents_db' \ DOMAIN documents_db :
             documents_db'[d].status = UPLOADING
       /\ \A d \in DOMAIN documents_db :
             IF d \in DOMAIN documents_db'
             THEN Forward(documents_db[d].status, documents_db'[d].status)
             ELSE out'.op = "delete"]_vars

C18_Witness ==
    /\ out.op = "list"
    /\ \E d \in DOMAIN out.documents :
          /\ out.documents[d] = COMPLETED
          /\ documents_db[d].status = COMPLETED

\* C19 (as claimed): every embedding a Chat or Search request computes is
\* requested with task type search_query.
C19_QueriesEmbeddedInQueryMode ==
    (/\ out.op \in {"chat", "search"}
     /\ "task_type" \in DOMAIN out)
    => out.task_type = get_query_embedding_task_type

\* Number of calls to the generation provider a chat request made.
Generations(calls) ==
    Cardinality({i \in 1..Len(calls) : calls[i] = "generate"})

\* C20: when the search of a chat request against a completed document
\* returns no hit at or above the threshold, the generation provider is
\* still called, exactly once, with the context "No relevant context found
\* in the document." built from an empty list of source documents, and
\* unless that call itself fails the answer is a 200 with empty sources.
C20_NoHitsStillGenerates ==
    (/\ out.op = "chat"
     /\ "sources" \in DOMAIN out
     /\ Len(out.sources) = 0)
    => /\ Generations(out.calls) = 1
       /\ out.context = no_context
       /\ out.code \in {200, 500}
       /\ documents_db[out.document_id].status = COMPLETED

C20_Witness ==
    /\ out.op = "chat"
    /\ out.code = 200
    /\ out.sources = <<>>
    /\ out.context = no_context
    /\ Matching(index, out.document_id) # {}

\* C21: ensure_collection_exists is idempotent.  Every worker task calls it
\* on a catalogue that already lists the collection and its document_id
\* payload index: the call ends without error whether or not Qdrant refuses
\* the index request, creates nothing, and leaves exactly one collection,
\* of vector size 768, with its index.
C21_EnsureCollectionIdempotent ==
    /\ DOMAIN collections = {collection_name}
    /\ collections[collection_name] =
          [size |-> collection_size, payload_index |-> TRUE]
    /\ \A index_raises \in BOOLEAN :
          ensure_collection_exists(collections, index_raises) =
             [catalogue |-> collections, created |-> {}, error |-> FALSE]

\* A retried execution is under way: the task initialised the index store
\* at least twice after the server had done so at startup.
C21_Witness ==
    /\ collection_name \in DOMAIN collections
    /\ \E e \in execs : e.retries >= 1

\* C22: at most one processing attempt is active per document id: two
\* executions of process_document for the same document id never overlap.
C22_OneAttemptPerDocument ==
    \A d \in DocIds : Cardinality({e \in execs : e.document_id = d}) <= 1

\* C23: upload enqueues the job only after the record has become processing:
\* no message is queued, and no execution runs, for a document whose record
\* is still in state uploading.
C23_JobOnlyForProcessingRecord ==
    \A d \in DOMAIN documents_db :
        documents_db[d].status = UPLOADING =>
            /\ \A m \in queue : m.document_id # d
            /\ \A e \in execs : e.document_id # d

\* C24: within one attempt the progress is non-decreasing: whatever a step
\* of a running execution stores for its task, a progress report or the
\* result that ends the attempt, carries a progress no smaller than the one
\* the attempt had published before.
C24_ProgressNeverDecreases ==
    [][\A e \in execs :
          IF backend[e.task_id].state # "PROGRESS" THEN TRUE
          ELSE IF backend'[e.task_id].state \notin {"PROGRESS", "SUCCESS"}
          THEN TRUE
          ELSE backend'[e.task_id].meta.progress
                  >= backend[e.task_id].meta.progress]_vars

\* C25: in every index state the points of a document carry the ordinals
\* 0..n-1, each exactly once, n being the number of its points; also after
\* an attempt that wrote some batches and failed was followed by another.
C25_OrdinalsContiguousAndUnique ==
    \A d \in DocIds \cup {OldDoc} :
        LET S == Matching(index, d)
        IN  \A i \in 0..(Count(index, S) - 1) :
                Count(index, {p \in S : p.chunk_index = i}) = 1

\* C26: once the job has succeeded, the record the status request reports
\* as completed has the page count and the chunk count of the document
\* recorded on it.
C26_CompletedRecordHasPagesAndChunks ==
    (out.op = "status" /\ out.code = 200 /\ out.status = COMPLETED) =>
        /\ documents_db[out.document_id].status = COMPLETED
        /\ documents_db[out.document_id].pages # <<>>
        /\ "chunks" \in DOMAIN documents_db[out.document_id]

\* C27: a search answers at most limit hits, each with a score of at least
\* the threshold, in non-increasing order of score.
C27_HitsBoundedFilteredOrdered ==
    (out.op = "search" /\ out.code = 200) =>
        /\ Len(out.results) <= out.limit
        /\ \A i \in 1..Len(out.results) :
              out.results[i].score >= search_score_threshold
        /\ \A i \in 1..Len(out.results), j \in 1..Len(out.results) :
              i < j => out.results[i].score >= out.results[j].score

\* A search answered two hits of different scores while the index held a
\* point under the threshold.
C27_Witness ==
    /\ out.op = "search" /\ out.code = 200
    /\ Len(out.results) >= 2
    /\ out.results[1].score > out.results[2].score
    /\ \E p \in DOMAIN index :
          Score(CHOOSE q \in Queries : TRUE, p) < search_score_threshold

\* C28: a delete_file that raises while a failure is handled does not stop
\* the handling: an attempt with fewer than 3 retries is still re-sent with
\* its retry count incremented, and the attempt with 3 retries still returns
\* the failure result.
C28_CleanupFailureKeepsRetry ==
    (out.op = "process_document" /\ out.cleanup_raised) =>
        IF out.retries < max_retries
        THEN /\ out.outcome = "retry"
             /\ Message(out.task_id, out.document_id, out.retries + 1)
                   \in queue
             /\ ResultState(out.task_id) = "RETRY"
        ELSE /\ out.outcome = FAILED
             /\ queue = {}
             /\ ResultState(out.task_id) = "SUCCESS"
             /\ backend[out.task_id].meta.status = FAILED

\* The failure result was returned by the last attempt although its
\* delete_file raised, after an earlier attempt had been through the same.
C28_Witness ==
    /\ out.op = "process_document" /\ out.cleanup_raised
    /\ out.retries = max_retries
    /\ out.outcome = FAILED
    /\ out.document_id \in DOMAIN uploads

\* C29: the citations of a chat answer are the ranked hits in their order,
\* each with the hit's content, its score, and the number of the page its
\* chunk comes from (every chunk of an extracted text lies under a page
\* marker, the text starting with one).
C29_CitationsCarryPageNumber ==
    (out.op = "chat" /\ out.code = 200) =>
        \E q \in Queries :
            LET hits == qdrant_search(index, q, out.document_id, chat_limit,
                                      chat_score_threshold)
            IN  /\ Len(out.sources) = Len(hits)
                /\ \A i \in 1..Len(hits) :
                      /\ out.sources[i].content
                            = <<hits[i].document_id, hits[i].chunk_index>>
                      /\ out.sources[i].confidence_score = hits[i].score
                      /\ out.sources[i].page_number # NoneVal

\* C30: a retry is scheduled 60 * (retries + 1) seconds ahead, retries being
\* the number of retries already made: 60, 120 and 180 seconds for the three
\* retries of a job, each later than the one before.
C30_RetryDelayGrowsLinearly ==
    /\ (out.op = "process_document" /\ out.outcome = "retry") =>
          /\ out.retries \in 0..2
          /\ out.countdown = 60 * (out.retries + 1)
          /\ out.retries > 0 => out.countdown > countdown(out.retries - 1)
    /\ <<countdown(0), countdown(1), countdown(2)>> = <<60, 120, 180>>

\* The third retry of a job was scheduled, 180 seconds ahead.
C30_Witness ==
    /\ out.op = "process_document" /\ out.outcome = "retry"
    /\ out.retries = 2
    /\ out.countdown = 180
    /\ Message(out.task_id, out.document_id, 3) \in queue

\* C31: a transient failure does not doom the job: when an attempt of a
\* document that was not deleted fails in the embedding or the upsert step
\* with retries remaining, the uploaded bytes are still there for the next
\* attempt to extract.
C31_TransientFailureKeepsBytes ==
    (/\ out.op = "process_document"
     /\ out.outcome = "retry"
     /\ out.step \in {"embed", "upsert"}
     /\ out.document_id \in DOMAIN documents_db)
    => out.document_id \in DOMAIN uploads

\* C32: when the job of a document ends failed, its retries exhausted, the
\* index holds no point tagged with the document: what the batches before a
\* failing batch wrote does not stay.
C32_FailedLeavesNoPoints ==
    (out.op = "process_document" /\ out.outcome = FAILED)
    => Matching(index, out.document_id) = {}

\* C33: once the job of a document has finished, every status request for
\* the document reports a terminal state, the one of the job's result,
\* however late the request is made, also after the result has expired.
C33_StatusTerminalOnceJobFinished ==
    (/\ out.op = "status"
     /\ out.code = 200
     /\ Truthy(documents_db[out.document_id].task_id)
     /\ MessagesOf(TaskOf(out.document_id)) = {}
     /\ ExecsOf(TaskOf(out.document_id)) = {})
    => /\ out.status \in {COMPLETED, FAILED}
       /\ TaskOf(out.document_id) \in DOMAIN backend
             => out.status = backend[TaskOf(out.document_id)].meta.status

\* C34: upload is all-or-nothing: when an upload is answered with an error,
\* the registry holds no record it created (none is left in state uploading)
\* and the disk no file it stored.
C34_FailedUploadLeavesNothing ==
    (out.op = "upload" /\ out.code = 400) =>
        \A d \in DocIds :
            /\ d \in DOMAIN documents_db
                  => documents_db[d].status # UPLOADING
            /\ d \in DOMAIN uploads => d \in DOMAIN documents_db

\* C35: processes that initialise the index store at the same time, against
\* a Qdrant without the collection, all complete without error, whatever
\* the order of their requests, and leave exactly one collection.
C35_ConcurrentInitSucceeds ==
    /\ \A p \in Procs : starting[p] # "failed"
    /\ (\A p \in Procs : starting[p] = "ready")
          => DOMAIN collections = {collection_name}

\* C36: delete_document(d) leaves the points of every other document as
\* they were, whether or not d has points: a step of cleanup_document for d
\* neither removes, adds nor changes a point tagged with another document.
C36_DeleteLeavesOtherDocuments ==
    [][out'.op = "cleanup_document"
         => \A p \in DOMAIN index \cup DOMAIN index' :
               p.document_id # out'.document_id
                  => Copies(index', p) = Copies(index, p)]_vars

\* A cleanup removed points of its document while the index held points of
\* another document, which are still there.
C36_Witness ==
    /\ out.op = "cleanup_document"
    /\ out.status = "success"
    /\ out.deleted_chunks > 0
    /\ Matching(index, out.document_id) = {}
    /\ Count(index, Matching(index, OldDoc)) = 2

Spec == Init /\ [][Next]_vars
====
